---- MODULE Spec2Model ----
(***************************************************************************)
(* Model of the ultrasound-case scraper.                                   *)
(*                                                                         *)
(*  - main.py      main(): the Category -> Subcategory -> Case walk, the   *)
(*                 per-case extraction (scrape_case_details), the asset    *)
(*                 download (download_file) and the CSV rows it writes.    *)
(*  - main3.py     process_urls(): one CSV row per URL of                  *)
(*                 digit_ending_urls.txt.                                  *)
(*  - main.py      download_file step by step, with the images folder.     *)
(*  - the extraction functions of main.py, main2.py, scrapeit.py and       *)
(*    main3.py, each applied to a parsed page drawn from a bounded set.    *)
(*                                                                         *)
(* The site is the environment.  What a page holds is decided when the     *)
(* code reads it: the number of categories when the root page is parsed,   *)
(* the number of subcategories of a category when the outer loop reaches   *)
(* it, the number of case links when the subcategory page is parsed, the   *)
(* portfolio links of a case one by one as the link loop visits them.      *)
(* Names of categories and subcategories are identified with their index   *)
(* in the list they come from.                                             *)
(***************************************************************************)
EXTENDS Integers, Sequences, FiniteSets, TLC

\* ------------------------------------------------------------------ bounds
MaxCats == 2      \* categories on the root page
MaxSubs == 2      \* subcategories of one category
MaxCases == 2     \* case links on one subcategory page
MaxLinks == 2     \* anchors in one case's portfolio
MaxUrls == 3      \* lines of digit_ending_urls.txt (main3.py)

\* ------------------------------------------------------------- site fixture
\* hrefs of portfolio anchors: two images that share the final path segment,
\* a third image and one anchor that is no image
Hrefs ==
    { [dir |-> "a", name |-> "x", ext |-> "jpg"],
      [dir |-> "b", name |-> "x", ext |-> "jpg"],
      [dir |-> "a", name |-> "y", ext |-> "png"],
      [dir |-> "a", name |-> "doc", ext |-> "pdf"] }
Captions == {"", "c"}
Titles == {"", "T"}
\* what session.get can answer: status 200, another status, or an exception
Responses == {"200", "404", "error"}

VARIABLES
    pc,             \* position of main.py's main()
    nCats, ci,      \* len(categories), index of the category being processed
    nSubs, si,      \* len(category['subcategories']), index of the subcategory
    nCases, ki,     \* len(case_links), index of the case
    nLinks, li,     \* len(image_links), index of the portfolio link
    img_url, caption,   \* locals of the link loop while download_file runs
    case_data,      \* <<>> for None, else <<[title, images, image_captions]>>
    ri,             \* index of the row being written for the case
    written,        \* rows handed to writer.writerow for the case in progress
    unflushed,      \* rows held in csvfile's buffer, not yet in the file
    requested,      \* asset URLs a GET was issued for during the run
    nFailed,        \* image links of the case in progress whose download gave None
    case_urls,      \* asset URLs requested for the case in progress
    delayed,        \* an asyncio.sleep has run since the last page render
    skipped,        \* kind of the node the last except clause skipped, if any
    inflight,       \* network operations begun and not yet completed
    p3_pc,          \* position of main3.py's process_urls()
    p3_urls, p3_i,  \* urls read from digit_ending_urls.txt, loop index
    p3_buffer,      \* rows held in csvfile's buffer
    p3_file,        \* rows in case_details.csv
    dl_pc,          \* position of one download_file call
    dl_url,         \* its url argument
    dl_hash,        \* hash(url) of this interpreter run, per url
    dl_files,       \* the images folder: what each path holds
    dl_before,      \* the folder as it was when the call started
    dl_result,      \* what the last call returned: <<>> for None, else <<path>>
    dl_done,        \* the calls that returned a path: [url, path]
    dl_calls,       \* calls made so far
    fn,             \* the extraction function called on a parsed page
    fn_in,          \* its argument
    fn_pc,          \* "call" before it runs, "returned" after
    fn_out          \* what it returned, or the exception it raised

mainVars ==
    <<pc, nCats, ci, nSubs, si, nCases, ki, nLinks, li, img_url, caption,
      case_data, ri, written, unflushed, requested, nFailed, case_urls, delayed,
      skipped, inflight>>
p3Vars == <<p3_pc, p3_urls, p3_i, p3_buffer, p3_file>>
dlVars ==
    <<dl_pc, dl_url, dl_hash, dl_files, dl_before, dl_result, dl_done, dl_calls>>
fnVars == <<fn, fn_in, fn_pc, fn_out>>
notMainVars == <<p3Vars, dlVars, fnVars>>
notP3Vars == <<mainVars, dlVars, fnVars>>
notDlVars == <<mainVars, p3Vars, fnVars>>
notFnVars == <<mainVars, p3Vars, dlVars>>
vars == <<mainVars, p3Vars, dlVars, fnVars>>

\* ------------------------------------------------------------ download_file
\* urljoin("https://www.ultrasoundcases.info", href): the absolute URL
urljoin(href) == <<"https://www.ultrasoundcases.info", href.dir, href.name, href.ext>>

\* 'jpg' in href.lower() or 'png' in href.lower()
IsImageHref(href) == href.ext \in {"jpg", "png"}

\* os.path.basename(urlparse(url).path)
basename(url) == <<url[3], url[4]>>

\* os.path.join(folder, filename)
filepath(folder, url) == <<folder>> \o basename(url)

\* download_file's result for one answer of session.get: <<path>> or <<>> (None)
download_file(url, folder, resp) ==
    IF resp = "200" THEN <<filepath(folder, url)>> ELSE <<>>

\* ---------------------------------------------------------------- CSV rows
Min(a, b) == IF a < b THEN a ELSE b

\* Python's zip: pairs up to the shorter argument
zip(xs, ys) == [i \in 1..Min(Len(xs), Len(ys)) |-> <<xs[i], ys[i]>>]

\* row = {...}: one row of case_details.csv; info, clinical_info and the
\* patient columns are copied from the case like title and are left out
Row(cat, sub, cd, pair) ==
    [category |-> cat, subcategory |-> sub, title |-> cd.title,
     image_path |-> pair[1], image_caption |-> pair[2]]

\* variant: the row loop runs over the pairs in reverse
CaseRowsReversed(cat, sub, cd) ==
    LET pairs == zip(cd.images, cd.image_captions)
    IN  [i \in 1..Len(pairs) |-> Row(cat, sub, cd, pairs[Len(pairs) + 1 - i])]

\* variant: a case without images gets one row with empty image fields
CaseRowsBlankWhenEmpty(cat, sub, cd) ==
    LET pairs == zip(cd.images, cd.image_captions)
    IN  IF Len(pairs) = 0
        THEN <<Row(cat, sub, cd, <<<<>>, "">>)>>
        ELSE [i \in 1..Len(pairs) |-> Row(cat, sub, cd, pairs[i])]

\* the rows main() builds for one extracted case, in loop order
CaseRows(cat, sub, cd) ==
    LET pairs == zip(cd.images, cd.image_captions)
    IN  [i \in 1..Len(pairs) |-> Row(cat, sub, cd, pairs[i])]

\* writer.writeheader(): the line of column names, not a row of a case
Header == [fieldnames |-> "csv_headers"]

\* the rows of cases among what the buffer holds
DataRows(buf) == {i \in 1..Len(buf) : buf[i] # Header}

\* variant: the flush is missing
flushNothing(buf) == buf

\* csvfile.flush(): nothing stays in the buffer
flush(buf) == <<>>

\* a buffered write: the row stays in the buffer, or the buffer filled up and
\* the runtime wrote it out
BufferedWrite(buf, row) == {Append(buf, row), <<>>}

\* ------------------------------------------------------- main.py: the loops
posVars == <<pc, ci, nSubs, si, nCases, ki, ri>>
caseVars == <<nLinks, li, img_url, caption, case_data, written, nFailed, case_urls>>

NoUrl == <<>>

\* the for loop over categories moves on, or main() leaves the with blocks
AfterCategory ==
    IF ci < nCats
    THEN /\ pc' = "category"
         /\ ci' = ci + 1
         /\ nSubs' = 0 /\ si' = 0 /\ nCases' = 0 /\ ki' = 0 /\ ri' = 0
    ELSE /\ pc' = "exit"
         /\ UNCHANGED <<ci, nSubs, si, nCases, ki, ri>>

\* the for loop over category['subcategories'] moves on
AfterSubcategory ==
    IF si < nSubs
    THEN /\ pc' = "subcat_fetch"
         /\ si' = si + 1
         /\ nCases' = 0 /\ ki' = 0 /\ ri' = 0
         /\ UNCHANGED <<ci, nSubs>>
    ELSE AfterCategory

\* the for loop over case_links moves on
AfterCase ==
    IF ki < nCases
    THEN /\ pc' = "case_fetch"
         /\ ki' = ki + 1
         /\ ri' = 0
         /\ UNCHANGED <<ci, nSubs, si, nCases>>
    ELSE AfterSubcategory

\* variant: the exception of one case is not caught and leaves main()
ExceptCaseAborts ==
    /\ pc' = "unwind"
    /\ UNCHANGED <<ci, nSubs, si, nCases, ki, ri>>

\* except Exception ... continue, around one case
ExceptCase == AfterCase

\* except Exception ... continue, around one subcategory
ExceptSubcategory == AfterSubcategory

\* the locals of one case are dead once its iteration ends
ResetCase ==
    /\ case_data' = <<>>
    /\ nLinks' = 0 /\ li' = 0
    /\ img_url' = NoUrl /\ caption' = ""
    /\ written' = <<>>
    /\ nFailed' = 0
    /\ case_urls' = {}

\* after the link loop: scrape_case_details returns and main() writes the rows
AfterLinks(cd) ==
    /\ pc' = IF Len(CaseRows(ci, si, cd)) = 0 THEN "sleep" ELSE "write"
    /\ UNCHANGED <<ci, nSubs, si, nCases, ki, ri>>

\* the link loop moves on to the next anchor, or ends
AfterLink(cd) ==
    IF li < nLinks
    THEN /\ pc' = "links"
         /\ li' = li + 1
         /\ UNCHANGED <<ci, nSubs, si, nCases, ki, ri>>
    ELSE /\ li' = li
         /\ AfterLinks(cd)

\* ------------------------------------------------ main.py: the awaited calls
\* the network operation main() is suspended in at position p: a page render
\* by crawler.arun or an asset GET by download_file
OpAt(p, c, s, k, url) ==
    CASE p = "start" ->
           {[kind |-> "render", target |-> <<"page", "0", "0", "0">>]}
      [] p = "subcat_fetch" ->
           {[kind |-> "render", target |-> <<"page", ToString(c), ToString(s), "0">>]}
      [] p = "case_fetch" ->
           {[kind |-> "render",
             target |-> <<"page", ToString(c), ToString(s), ToString(k)>>]}
      [] p = "download" -> {[kind |-> "get", target |-> url]}
      [] OTHER -> {}

\* a call that is not awaited is still running when the caller goes on
CompleteNothing(ops, op) == ops

\* await: the coroutine resumes when the operation it awaits has completed
Complete(ops, op) == ops \ op

\* the call of crawler.arun or session.get starts the operation
Begin(ops, op) == ops \cup op

\* one step of main(): the awaited operation completes, the next one begins
Await ==
    inflight' = Begin(Complete(inflight, OpAt(pc, ci, si, ki, img_url)),
                      OpAt(pc', ci', si', ki', img_url'))

\* ----------------------------------------------------- main.py: the actions
\* render the root page and read the categories off it; nothing catches an
\* exception here, so it leaves main()
Start ==
    /\ pc = "start"
    /\ delayed' = FALSE
    /\ \E outcome \in {"raise", "ok"} :
          IF outcome = "raise"
          THEN /\ pc' = "unwind"
               /\ UNCHANGED <<nCats, ci>>
          ELSE \E n \in 0..MaxCats :
                 /\ nCats' = n
                 /\ IF n = 0
                    THEN pc' = "exit" /\ ci' = ci
                    ELSE pc' = "category" /\ ci' = 1
    /\ UNCHANGED <<nSubs, si, nCases, ki, ri, caseVars, unflushed, requested, skipped>>
    /\ Await
    /\ UNCHANGED notMainVars

\* for category in categories: the inner loop starts on its subcategories
EnterCategory ==
    /\ pc = "category"
    /\ \E n \in 0..MaxSubs :
          IF n = 0
          THEN AfterCategory
          ELSE /\ nSubs' = n
               /\ si' = 1
               /\ pc' = "subcat_fetch"
               /\ UNCHANGED <<ci, nCases, ki, ri>>
    /\ UNCHANGED <<nCats, caseVars, unflushed, requested, delayed, skipped>>
    /\ Await
    /\ UNCHANGED notMainVars

\* render one subcategory page and read its case links
FetchSubcategory ==
    /\ pc = "subcat_fetch"
    /\ delayed' = FALSE
    /\ \E outcome \in {"raise", "ok"} :
          IF outcome = "raise"
          THEN /\ skipped' = "subcategory"
               /\ ExceptSubcategory
          ELSE /\ skipped' = "none"
               /\ \E n \in 0..MaxCases :
                     IF n = 0
                     THEN AfterSubcategory
                     ELSE /\ nCases' = n
                          /\ ki' = 1
                          /\ pc' = "case_fetch"
                          /\ UNCHANGED <<ci, nSubs, si, ri>>
    /\ UNCHANGED <<nCats, caseVars, unflushed, requested>>
    /\ Await
    /\ UNCHANGED notMainVars

\* render one case page and run scrape_case_details up to its link loop
FetchCase ==
    /\ pc = "case_fetch"
    /\ delayed' = FALSE
    /\ \E outcome \in {"raise", "None", "dict"} :
          CASE outcome = "raise" ->
                 /\ skipped' = "case"
                 /\ ExceptCase
                 /\ UNCHANGED caseVars
            [] outcome = "None" ->
                 /\ skipped' = "none"
                 /\ pc' = "sleep"
                 /\ UNCHANGED <<ci, nSubs, si, nCases, ki, ri>>
                 /\ UNCHANGED caseVars
            [] outcome = "dict" ->
                 \E t \in Titles, n \in 0..MaxLinks :
                   LET cd == [title |-> t, images |-> <<>>, image_captions |-> <<>>]
                   IN  /\ skipped' = "none"
                       /\ case_data' = <<cd>>
                       /\ nLinks' = n
                       /\ IF n = 0
                          THEN li' = 0 /\ AfterLinks(cd)
                          ELSE /\ li' = 1
                               /\ pc' = "links"
                               /\ UNCHANGED <<ci, nSubs, si, nCases, ki, ri>>
                       /\ UNCHANGED <<img_url, caption, written, nFailed, case_urls>>
    /\ UNCHANGED <<nCats, unflushed, requested>>
    /\ Await
    /\ UNCHANGED notMainVars

\* for img_link in image_links: anchors that are no image are passed over
NextLink ==
    /\ pc = "links"
    /\ \E href \in Hrefs, c \in Captions :
          IF IsImageHref(href)
          THEN /\ img_url' = urljoin(href)
               /\ caption' = c
               /\ pc' = "download"
               /\ UNCHANGED <<ci, nSubs, si, nCases, ki, ri, li>>
          ELSE /\ AfterLink(case_data[1])
               /\ UNCHANGED <<img_url, caption>>
    /\ UNCHANGED <<nCats, nLinks, case_data, written, nFailed, case_urls>>
    /\ UNCHANGED <<unflushed, requested, delayed, skipped>>
    /\ Await
    /\ UNCHANGED notMainVars

\* variant of the download step: the caption is appended whether or not the
\* download gave a path
DownloadCaptionUnguarded ==
    /\ pc = "download"
    /\ requested' = requested \cup {img_url}
    /\ case_urls' = case_urls \cup {img_url}
    /\ \E resp \in Responses :
          LET fp == download_file(img_url, "images", resp)
              cd == case_data[1]
              cd2 == IF fp # <<>>
                     THEN [cd EXCEPT !.images = Append(@, fp[1]),
                                     !.image_captions = Append(@, caption)]
                     ELSE [cd EXCEPT !.image_captions = Append(@, caption)]
          IN  /\ case_data' = <<cd2>>
              /\ nFailed' = IF fp # <<>> THEN nFailed ELSE nFailed + 1
              /\ AfterLink(cd2)
    /\ img_url' = NoUrl
    /\ caption' = ""
    /\ UNCHANGED <<nCats, nLinks, written, unflushed, delayed, skipped>>
    /\ Await
    /\ UNCHANGED notMainVars

\* filepath = await download_file(session, img_url, "images") and the if on it
Download ==
    /\ pc = "download"
    /\ requested' = requested \cup {img_url}
    /\ case_urls' = case_urls \cup {img_url}
    /\ \E resp \in Responses :
          LET fp == download_file(img_url, "images", resp)
              cd == case_data[1]
              cd2 == IF fp # <<>>
                     THEN [cd EXCEPT !.images = Append(@, fp[1]),
                                     !.image_captions = Append(@, caption)]
                     ELSE cd
          IN  /\ case_data' = <<cd2>>
              /\ nFailed' = IF fp # <<>> THEN nFailed ELSE nFailed + 1
              /\ AfterLink(cd2)
    /\ img_url' = NoUrl
    /\ caption' = ""
    /\ UNCHANGED <<nCats, nLinks, written, unflushed, delayed, skipped>>
    /\ Await
    /\ UNCHANGED notMainVars

\* writer.writerow(row)
WriteRow ==
    /\ pc = "write"
    /\ LET row == CaseRows(ci, si, case_data[1])[ri + 1]
       IN  /\ written' = Append(written, row)
           /\ unflushed' \in BufferedWrite(unflushed, row)
    /\ ri' = ri + 1
    /\ pc' = "flush"
    /\ UNCHANGED <<nCats, ci, nSubs, si, nCases, ki>>
    /\ UNCHANGED <<nLinks, li, img_url, caption, case_data, nFailed, case_urls>>
    /\ UNCHANGED <<requested, delayed, skipped>>
    /\ Await
    /\ UNCHANGED notMainVars

\* csvfile.flush(), then the row loop moves on
Flush ==
    /\ pc = "flush"
    /\ unflushed' = flush(unflushed)
    /\ pc' = IF ri < Len(CaseRows(ci, si, case_data[1])) THEN "write" ELSE "sleep"
    /\ UNCHANGED <<nCats, ci, nSubs, si, nCases, ki, ri>>
    /\ UNCHANGED <<caseVars, requested, delayed, skipped>>
    /\ Await
    /\ UNCHANGED notMainVars

\* await asyncio.sleep(2), then the case loop moves on
Sleep ==
    /\ pc = "sleep"
    /\ delayed' = TRUE
    /\ ResetCase
    /\ AfterCase
    /\ UNCHANGED <<nCats, unflushed, requested, skipped>>
    /\ Await
    /\ UNCHANGED notMainVars

\* the with blocks end: session and crawler shut down, the CSV file is closed
\* and what its buffer holds is written out
Close ==
    /\ pc = "exit"
    /\ pc' = "done"
    /\ unflushed' = <<>>
    /\ UNCHANGED <<nCats, ci, nSubs, si, nCases, ki, ri>>
    /\ UNCHANGED <<caseVars, requested, delayed, skipped>>
    /\ Await
    /\ UNCHANGED notMainVars

\* the same on the way out of an exception, which then leaves main()
Abort ==
    /\ pc = "unwind"
    /\ pc' = "aborted"
    /\ unflushed' = <<>>
    /\ UNCHANGED <<nCats, ci, nSubs, si, nCases, ki, ri>>
    /\ UNCHANGED <<caseVars, requested, delayed, skipped>>
    /\ Await
    /\ UNCHANGED notMainVars

MainInit ==
    /\ pc = "start"
    /\ nCats = 0 /\ ci = 0 /\ nSubs = 0 /\ si = 0 /\ nCases = 0 /\ ki = 0
    /\ nLinks = 0 /\ li = 0 /\ img_url = NoUrl /\ caption = ""
    /\ case_data = <<>> /\ ri = 0 /\ written = <<>> /\ unflushed = <<Header>>
    /\ requested = {} /\ nFailed = 0 /\ case_urls = {}
    /\ delayed = FALSE /\ skipped = "none"
    /\ inflight = OpAt("start", 0, 0, 0, NoUrl)

P3Off ==
    /\ p3_pc = "off" /\ p3_urls = <<>> /\ p3_i = 0
    /\ p3_buffer = <<>> /\ p3_file = <<>>

\* ------------------------------------------------- main3.py: process_urls
\* lines of digit_ending_urls.txt
P3Lines == {"case-100", "case-7"}

RECURSIVE SeqsUpTo(_, _)
SeqsUpTo(S, n) ==
    IF n = 0 THEN {<<>>}
    ELSE LET shorter == SeqsUpTo(S, n - 1)
         IN  shorter \cup {Append(q, x) : q \in shorter, x \in S}

\* the for loop over urls moves on, or process_urls leaves the with blocks
P3AfterUrl ==
    IF p3_i < Len(p3_urls)
    THEN p3_pc' = "render" /\ p3_i' = p3_i + 1
    ELSE p3_pc' = "exit" /\ p3_i' = p3_i

\* urls read, CSV file opened, header written, crawler started
P3Init ==
    /\ p3_urls \in SeqsUpTo(P3Lines, MaxUrls)
    /\ p3_i = IF p3_urls = <<>> THEN 0 ELSE 1
    /\ p3_pc = IF p3_urls = <<>> THEN "exit" ELSE "render"
    /\ p3_buffer = <<Header>>
    /\ p3_file = <<>>

\* crawler.arun for one URL, extract_case_info and writer.writerow; the row
\* is not flushed
P3Render ==
    /\ p3_pc = "render"
    /\ \E outcome \in {"raise", "empty", "html"} :
          IF outcome = "html"
          THEN LET row == [url |-> p3_urls[p3_i]]
               IN  \E buf \in BufferedWrite(p3_buffer, row) :
                     /\ p3_buffer' = buf
                     /\ p3_file' = IF buf = <<>>
                                   THEN p3_file \o Append(p3_buffer, row)
                                   ELSE p3_file
          ELSE UNCHANGED <<p3_buffer, p3_file>>
    /\ p3_pc' = "sleep"
    /\ UNCHANGED <<p3_urls, p3_i>>
    /\ UNCHANGED notP3Vars

\* await asyncio.sleep(1), then the loop moves on
P3Sleep ==
    /\ p3_pc = "sleep"
    /\ P3AfterUrl
    /\ UNCHANGED <<p3_urls, p3_buffer, p3_file>>
    /\ UNCHANGED notP3Vars

\* the with blocks end: the crawler shuts down and the CSV file is closed
P3Close ==
    /\ p3_pc = "exit"
    /\ p3_pc' = "done"
    /\ p3_file' = p3_file \o p3_buffer
    /\ p3_buffer' = <<>>
    /\ UNCHANGED <<p3_urls, p3_i>>
    /\ UNCHANGED notP3Vars

MainOff ==
    /\ pc = "off"
    /\ nCats = 0 /\ ci = 0 /\ nSubs = 0 /\ si = 0 /\ nCases = 0 /\ ki = 0
    /\ nLinks = 0 /\ li = 0 /\ img_url = NoUrl /\ caption = ""
    /\ case_data = <<>> /\ ri = 0 /\ written = <<>> /\ unflushed = <<>>
    /\ requested = {} /\ nFailed = 0 /\ case_urls = {}
    /\ delayed = FALSE /\ skipped = "none"
    /\ inflight = {}

NextP3 ==
    \/ P3Render
    \/ P3Sleep
    \/ P3Close

\* --------------------------------------- main.py: download_file, step by step
MaxDownloads == 2     \* download_file calls in one run

\* asset URLs whose path ends in '/': os.path.basename gives ''
SlashUrls ==
    { <<"https://www.ultrasoundcases.info", "a", "", "">>,
      <<"https://www.ultrasoundcases.info", "b", "", "">> }
DlUrls == {urljoin(h) : h \in {x \in Hrefs : IsImageHref(x)}} \cup SlashUrls
\* values hash(url) can take; str hashes are salted per interpreter run
HashValues == {"h0", "h1"}

\* filename = basename, or f"file_{hash(url)}" when the basename is empty
filename(url, h) ==
    IF basename(url) = <<"", "">> THEN <<"file_", h>> ELSE basename(url)

\* filepath = os.path.join(folder, filename) as download_file computes it
DlPath(url) ==
    <<"images">> \o filename(url, IF url \in SlashUrls THEN dl_hash[url] ELSE "")
DlPaths == {<<"images">> \o basename(u) : u \in DlUrls \ SlashUrls}
             \cup {<<"images", "file_", h>> : h \in HashValues}

Absent == [state |-> "absent", of |-> NoUrl]

\* download_file returns: the except clause and the else branch give None
DlReturn(res) ==
    /\ dl_pc' = "idle"
    /\ dl_result' = res
    /\ dl_done' = IF res = <<>> THEN dl_done
                  ELSE dl_done \cup {[url |-> dl_url, path |-> res[1]]}

\* main() calls download_file(session, url, "images")
DlCall ==
    /\ dl_pc = "idle"
    /\ dl_calls < MaxDownloads
    /\ dl_calls' = dl_calls + 1
    /\ \E u \in DlUrls : dl_url' = u
    /\ dl_pc' = "get"
    /\ dl_before' = dl_files
    /\ UNCHANGED <<dl_hash, dl_files, dl_result, dl_done>>
    /\ UNCHANGED notDlVars

\* async with session.get(url) as response: if response.status == 200
DlGet ==
    /\ dl_pc = "get"
    /\ \E resp \in Responses :
          IF resp = "200"
          THEN dl_pc' = "open" /\ UNCHANGED <<dl_result, dl_done>>
          ELSE DlReturn(<<>>)
    /\ UNCHANGED <<dl_url, dl_hash, dl_files, dl_before, dl_calls>>
    /\ UNCHANGED notDlVars

\* async with aiofiles.open(filepath, 'wb') as f: mode 'wb' creates the file
\* or cuts an existing one to length 0
DlOpen ==
    /\ dl_pc = "open"
    /\ \E outcome \in {"ok", "raise"} :
          IF outcome = "ok"
          THEN /\ dl_files' = [dl_files EXCEPT ![DlPath(dl_url)] =
                                  [state |-> "empty", of |-> dl_url]]
               /\ dl_pc' = "read"
               /\ UNCHANGED <<dl_result, dl_done>>
          ELSE /\ DlReturn(<<>>)
               /\ UNCHANGED dl_files
    /\ UNCHANGED <<dl_url, dl_hash, dl_before, dl_calls>>
    /\ UNCHANGED notDlVars

\* await response.read(), evaluated inside the open file's with block
DlRead ==
    /\ dl_pc = "read"
    /\ \E outcome \in {"ok", "raise"} :
          IF outcome = "ok"
          THEN dl_pc' = "write" /\ UNCHANGED <<dl_result, dl_done>>
          ELSE DlReturn(<<>>)
    /\ UNCHANGED <<dl_url, dl_hash, dl_files, dl_before, dl_calls>>
    /\ UNCHANGED notDlVars

\* await f.write(body); return filepath
DlWrite ==
    /\ dl_pc = "write"
    /\ \E outcome \in {"ok", "raise"} :
          IF outcome = "ok"
          THEN /\ dl_files' = [dl_files EXCEPT ![DlPath(dl_url)] =
                                  [state |-> "full", of |-> dl_url]]
               /\ DlReturn(<<DlPath(dl_url)>>)
          ELSE /\ dl_files' \in
                    { [dl_files EXCEPT ![DlPath(dl_url)] = [state |-> st, of |-> dl_url]]
                        : st \in {"empty", "partial"} }
               /\ DlReturn(<<>>)
    /\ UNCHANGED <<dl_url, dl_hash, dl_before, dl_calls>>
    /\ UNCHANGED notDlVars

\* os.makedirs("images", exist_ok=True): the folder exists and is empty
DlInit ==
    /\ dl_pc = "idle"
    /\ dl_url = NoUrl
    /\ dl_hash \in [SlashUrls -> HashValues]
    /\ dl_files = [p \in DlPaths |-> Absent]
    /\ dl_before = [p \in DlPaths |-> Absent]
    /\ dl_result = <<>>
    /\ dl_done = {}
    /\ dl_calls = 0

DlOff ==
    /\ dl_pc = "off"
    /\ dl_url = NoUrl
    /\ dl_hash = <<>>
    /\ dl_files = <<>>
    /\ dl_before = <<>>
    /\ dl_result = <<>>
    /\ dl_done = {}
    /\ dl_calls = 0

NextDl ==
    \/ DlCall
    \/ DlGet
    \/ DlOpen
    \/ DlRead
    \/ DlWrite

\* ------------------------------------------ the extraction functions: pages
MaxItems == 2     \* elements one locator matches inside a container

\* what find() gives: <<>> for None, else <<element>>
Opt(S) == {<<>>} \cup {<<x>> : x \in S}

\* the href of an anchor on a listing page
PageHref == [dir |-> "cases", name |-> "liver", ext |-> "1"]

\* an item div of a listing page: the href of its first a[href], if it has one
LinkItems == Opt({PageHref})

\* a container: the divs its two item locators match, in document order
Containers ==
    [first : SeqsUpTo(LinkItems, MaxItems), second : SeqsUpTo(LinkItems, MaxItems)]

\* a listing page: what the first and the second container locator find
ListingPages == [first : Opt(Containers), second : Opt(Containers)]

\* what a function call gives back
Returned(v) == [exc |-> "none", value |-> v]
Raised(e) == [exc |-> e, value |-> <<>>]

\* for item in items: link = item.find('a', href=True); if link: append
RECURSIVE LinksOf(_)
LinksOf(items) ==
    IF items = <<>> THEN <<>>
    ELSE LET rest == LinksOf(Tail(items))
         IN  IF Head(items) = <<>> THEN rest
             ELSE <<urljoin(Head(items)[1])>> \o rest

\* get_case_links with the second item locator searched as well as the first
get_case_linksBoth(soup) ==
    LET c == IF soup.first = <<>> THEN soup.second ELSE soup.first
    IN  IF c = <<>> THEN <<>> ELSE LinksOf(c[1].first \o c[1].second)

\* get_case_links(soup): container 'candidate-filter-result', else
\* 'content-container'; items 'candidate', else 'case-item'
get_case_links(soup) ==
    LET found == soup.first
        content_container == IF found = <<>> THEN soup.second ELSE found
    IN  IF content_container # <<>>
        THEN LET candidates == content_container[1].first
                 case_items == IF candidates = <<>>
                               THEN content_container[1].second
                               ELSE candidates
             IN  LinksOf(case_items)
        ELSE <<>>

\* get_subcategory_links(soup): soup.find_all 'subcategory-item', else
\* 'list-item'; soup is the container
get_subcategory_links(soup) ==
    LET found == soup.first
        subcategories == IF found = <<>> THEN soup.second ELSE found
    IN  LinksOf(subcategories)

\* ---------------------------------- the extraction functions: organ pages
\* text as the characters it is made of
MaxText == 3      \* characters in the text of a count element
TextChars == {"1", "2", "c", " "}
Digits == {"0", "1", "2"}
Whitespace == {" "}

\* str.strip(): leading and trailing whitespace removed
RECURSIVE lstrip(_)
lstrip(t) ==
    IF t # <<>> /\ Head(t) \in Whitespace THEN lstrip(Tail(t)) ELSE t
RECURSIVE rstrip(_)
rstrip(t) ==
    IF t # <<>> /\ t[Len(t)] \in Whitespace
    THEN rstrip(SubSeq(t, 1, Len(t) - 1)) ELSE t
strip(t) == lstrip(rstrip(t))

\* ''.join(filter(str.isdigit, text))
isdigit(ch) == ch \in Digits
filter_isdigit(t) == SelectSeq(t, isdigit)

\* int(s) for a string of digits; int('') raises ValueError
DigitValue(ch) == IF ch = "0" THEN 0 ELSE IF ch = "1" THEN 1 ELSE 2
RECURSIVE DecimalValue(_)
DecimalValue(ds) ==
    IF ds = <<>> THEN 0
    ELSE 10 * DecimalValue(SubSeq(ds, 1, Len(ds) - 1)) + DigitValue(ds[Len(ds)])
int(ds) == IF ds = <<>> THEN Raised("ValueError") ELSE Returned(DecimalValue(ds))

\* scrape_organ_cases, the count of one candidate: span 'cases-count', else
\* span 'count'; "0" when neither is there
cases_count(candidate) ==
    LET found == candidate.cases_count
        cases_count_elem == IF found = <<>> THEN candidate.count ELSE found
        text == IF cases_count_elem # <<>> THEN strip(cases_count_elem[1]) ELSE <<"0">>
    IN  int(filter_isdigit(text))

\* scrape_organ_cases, the body of the loop over candidate elements
candidate_info(candidate) ==
    LET h3 == candidate.h3
        title_elem == IF h3 = <<>> THEN candidate.h2 ELSE h3
        title == IF title_elem # <<>> THEN title_elem[1] ELSE ""
        count == cases_count(candidate)
        link == IF candidate.a # <<>> THEN <<urljoin(candidate.a[1])>> ELSE <<>>
    IN  IF count.exc # "none" THEN count
        ELSE Returned([title |-> title, cases_count |-> count.value, link |-> link])

\* candidate divs of the organ page
OrganCandidates ==
    { [h3 |-> <<"Liver">>, h2 |-> <<>>, cases_count |-> << <<"1", "2">> >>,
       count |-> <<>>, a |-> <<PageHref>>],
      [h3 |-> <<>>, h2 |-> <<"Kidney">>, cases_count |-> <<>>,
       count |-> << <<" ", "2", "c">> >>, a |-> <<>>],
      [h3 |-> <<>>, h2 |-> <<>>, cases_count |-> <<>>,
       count |-> << <<"c">> >>, a |-> <<>>],
      [h3 |-> <<>>, h2 |-> <<>>, cases_count |-> <<>>, count |-> <<>>, a |-> <<>>] }

\* the divs 'candidate' and 'case-item' match inside one element
CandidateDivs ==
    [first : SeqsUpTo(OrganCandidates, MaxItems),
     second : SeqsUpTo(OrganCandidates, MaxItems)]
NoDivs == [first |-> <<>>, second |-> <<>>]
\* divs the code must not pick when an earlier locator matched
DecoyDivs == [first |-> <<CHOOSE c \in OrganCandidates : c.h3 # <<>> >>, second |-> <<>>]

\* a container of the organ page: its 'candidate-filter-result visible' div if
\* it has one, and the candidate divs that lie outside that div
OrganContainers ==
    {[filter |-> <<e>>, outside |-> d] : e \in CandidateDivs, d \in {NoDivs, DecoyDivs}}
      \cup {[filter |-> <<>>, outside |-> e] : e \in CandidateDivs}
DecoyContainer == [filter |-> <<>>, outside |-> DecoyDivs]

\* anchors of the organ section
AnchorLists == {<<>>, <<"organ-a">>, <<"organ-b">>}

\* the organ page: what each of the four top-level locators finds
OrganPages ==
    [candidate_container : Opt(OrganContainers),
     content_container : {<<>>, <<DecoyContainer>>},
     option_title : Opt(AnchorLists \ {<<"organ-b">>}),
     category_list : {<<>>, << <<"organ-b">> >>}]
      \cup [candidate_container : {<<>>},
            content_container : Opt(OrganContainers),
            option_title : {<<>>},
            category_list : Opt(AnchorLists)]

\* organ pages with one candidate div, whose count elements hold any text
CountCandidates ==
    [h3 : {<<>>}, h2 : {<<>>}, a : {<<>>},
     cases_count : Opt(SeqsUpTo(TextChars, MaxText)),
     count : Opt(SeqsUpTo(TextChars, MaxText))]
CountPages ==
    { [candidate_container |->
         <<[filter |-> <<>>, outside |-> [first |-> <<c>>, second |-> <<>>]]>>,
       content_container |-> <<>>, option_title |-> <<>>, category_list |-> <<>>]
        : c \in CountCandidates }

\* find_all inside an element finds the divs of its descendants too
AllDivs(container) ==
    IF container.filter = <<>> THEN container.outside
    ELSE [first |-> container.filter[1].first \o container.outside.first,
          second |-> container.filter[1].second \o container.outside.second]

\* the loop over candidate elements: the first exception ends it
RECURSIVE FirstRaised(_)
FirstRaised(results) ==
    IF results = <<>> THEN <<>>
    ELSE IF Head(results).exc # "none" THEN <<Head(results)>>
         ELSE FirstRaised(Tail(results))

\* scrape_organ_cases(crawler, base_url) from the parsed page on
scrape_organ_cases(soup) ==
    LET found == soup.candidate_container
        candidate_container == IF found = <<>> THEN soup.content_container ELSE found
        active == soup.option_title
        organ_section == IF active = <<>> THEN soup.category_list ELSE active
        organ_links == IF organ_section # <<>> THEN organ_section[1] ELSE <<>>
        visible == IF candidate_container # <<>>
                   THEN candidate_container[1].filter ELSE <<>>
        filter_results == IF visible = <<>>
                          THEN IF candidate_container = <<>> THEN <<>>
                               ELSE <<AllDivs(candidate_container[1])>>
                          ELSE visible
        candidate_elements ==
            IF filter_results = <<>> THEN <<>>
            ELSE IF filter_results[1].first = <<>> THEN filter_results[1].second
                 ELSE filter_results[1].first
        infos == [i \in 1..Len(candidate_elements) |->
                    candidate_info(candidate_elements[i])]
        raised == FirstRaised(infos)
    IN  IF raised # <<>> THEN raised[1]
        ELSE Returned([candidates |-> [i \in 1..Len(infos) |-> infos[i].value],
                       organ_links |-> organ_links])

\* ------------------------------ the extraction functions: candidate pages
\* thumb divs of a candidate page
Thumbs ==
    { [h3 |-> <<"T">>, h2 |-> <<>>, p |-> <<"d">>, description |-> <<>>,
       a |-> <<PageHref>>, img |-> << <<[dir |-> "a", name |-> "x", ext |-> "jpg"]>> >>],
      [h3 |-> <<>>, h2 |-> <<"T2">>, p |-> <<>>, description |-> <<"d2">>,
       a |-> <<>>, img |-> << <<>> >>],
      [h3 |-> <<>>, h2 |-> <<>>, p |-> <<>>, description |-> <<>>,
       a |-> <<>>, img |-> <<>>] }

\* the divs 'thumb' and 'case-item' match inside one grid
ThumbDivs ==
    [first : SeqsUpTo(Thumbs, MaxItems), second : SeqsUpTo(Thumbs, MaxItems)]
DecoyGrid == [first |-> <<CHOOSE t \in Thumbs : t.h3 # <<>> >>, second |-> <<>>]

\* a candidate page: what 'half-grid' and 'cases-grid' find
CandidatePages ==
    [first : Opt(ThumbDivs), second : {<<>>, <<DecoyGrid>>}]
      \cup [first : {<<>>}, second : Opt(ThumbDivs)]

\* for img in images: download the ones that have a src
RECURSIVE image_paths(_, _)
image_paths(imgs, resp) ==
    IF imgs = <<>> THEN <<>>
    ELSE LET src == Head(imgs)
             fp == IF src = <<>> THEN <<>>
                   ELSE download_file(urljoin(src[1]), "images", resp)
         IN  fp \o image_paths(Tail(imgs), resp)

\* scrape_candidate_page, the body of the loop over thumb elements
thumb_info(thumb, resp) ==
    LET h3 == thumb.h3
        title_elem == IF h3 = <<>> THEN thumb.h2 ELSE h3
        p == thumb.p
        desc_elem == IF p = <<>> THEN thumb.description ELSE p
    IN  [title |-> IF title_elem # <<>> THEN title_elem[1] ELSE "",
         description |-> IF desc_elem # <<>> THEN desc_elem[1] ELSE "",
         image_paths |-> image_paths(thumb.img, resp),
         video_paths |-> <<>>,
         link |-> IF thumb.a # <<>> THEN <<urljoin(thumb.a[1])>> ELSE <<>>]

\* scrape_candidate_page(crawler, session, candidate_url) from the parsed page
\* on; resps[i] is what session.get answers for the images of the i-th thumb
scrape_candidate_page(soup, resps) ==
    LET found == soup.first
        half_grid == IF found = <<>> THEN soup.second ELSE found
    IN  IF half_grid # <<>>
        THEN LET thumbs == half_grid[1].first
                 thumb_elements == IF thumbs = <<>> THEN half_grid[1].second
                                   ELSE thumbs
             IN  [i \in 1..Len(thumb_elements) |->
                    thumb_info(thumb_elements[i], resps[i])]
        ELSE <<>>

\* ------------------------------------ the extraction functions: case pages
\* characters of a patient-data item: a label word, the colon, a blank and a
\* value word
LiChars == {"S", ":", " ", "F"}

\* str.rstrip(':')
RECURSIVE rstrip_colon(_)
rstrip_colon(t) ==
    IF t # <<>> /\ t[Len(t)] = ":"
    THEN rstrip_colon(SubSeq(t, 1, Len(t) - 1)) ELSE t

startswith(t, prefix) ==
    Len(prefix) <= Len(t) /\ SubSeq(t, 1, Len(prefix)) = prefix

\* str.replace(old, ''): every occurrence of old is removed, left to right
RECURSIVE replace(_, _)
replace(t, old) ==
    IF t = <<>> \/ old = <<>> THEN t
    ELSE IF startswith(t, old)
         THEN replace(SubSeq(t, Len(old) + 1, Len(t)), old)
         ELSE <<Head(t)>> \o replace(Tail(t), old)

\* li.text: the text of the span followed by the text after it
li_text(item) == (IF item.span = <<>> THEN <<>> ELSE item.span[1]) \o item.after

\* the loop over patient_data.find_all('li'); li.find('span') is None for an
\* item without a span and None.text raises AttributeError
RECURSIVE patient_details(_, _)
patient_details(lis, dict) ==
    IF lis = <<>> THEN Returned(dict)
    ELSE LET item == Head(lis)
         IN  IF item.span = <<>> THEN Raised("AttributeError")
             ELSE LET key == rstrip_colon(strip(item.span[1]))
                      value == strip(replace(li_text(item), item.span[1]))
                  IN  patient_details(Tail(lis),
                        [k \in DOMAIN dict \cup {key} |->
                           IF k = key THEN value ELSE dict[k]])

\* scrape_case_details(soup, session) on a page without a portfolio div:
\* <<>> for None, else <<case_data>>
scrape_case_details(soup) ==
    IF soup = <<>> THEN Returned(<<>>)
    ELSE LET company_details == soup[1]
             title_section == company_details.title_body
             h1 == IF title_section # <<>> THEN title_section[1].h1 ELSE <<>>
             info_div == IF title_section # <<>> THEN title_section[1].info ELSE <<>>
             clinical_section == company_details.about_details
             clinical_info == IF clinical_section # <<>>
                              THEN clinical_section[1].p ELSE <<>>
             patient_data == company_details.patient_data
             details == IF patient_data # <<>>
                        THEN patient_details(patient_data[1], <<>>)
                        ELSE Returned(<<>>)
         IN  IF details.exc # "none" THEN details
             ELSE Returned(<<[title |-> IF h1 # <<>> THEN strip(h1[1]) ELSE <<>>,
                              info |-> IF info_div # <<>> THEN strip(info_div[1]) ELSE <<>>,
                              clinical_info |-> IF clinical_info # <<>>
                                                THEN strip(clinical_info[1]) ELSE <<>>,
                              patient_details |-> details.value,
                              images |-> <<>>,
                              image_captions |-> <<>>,
                              videos |-> <<>>]>>)

\* patient-data items: with the colon inside the span, and without a span
PlainLis ==
    { [span |-> << <<"S", ":">> >>, after |-> <<" ", "F">>],
      [span |-> <<>>, after |-> <<"F">>] }
\* patient-data items with a label span and any text after it
LabelledLis ==
    [span : { << <<"S">> >>, << <<"S", ":">> >> }, after : SeqsUpTo(LiChars, MaxText)]

\* the company-details div of a case page
CompanyDetails ==
    [title_body : Opt([h1 : Opt({<<"T", " ">>}), info : Opt({<<" ", "i">>})]),
     about_details : Opt([p : Opt({<<" ", "c", " ">>})]),
     patient_data : Opt(SeqsUpTo(PlainLis, MaxItems))]
      \cup [title_body : {<<>>}, about_details : {<<>>},
            patient_data : {<< <<item>> >> : item \in LabelledLis}]
CasePages == Opt(CompanyDetails)

\* ------------------------- the extraction functions: main2.py, scrapeit.py
MaxTokens == 4    \* tokens of a rendered root page

\* a page as the tokens that matter to extract_main_categories: the opening
\* of the jsoncats div, the brackets, a category object with the keys header,
\* listLocation and id, a category object without header, and any other text
HtmlTokens == {"<div id=jsoncats", "[", "]", "{full}", "{id}", "x"}

Max(a, b) == IF a > b THEN a ELSE b

\* str.find(sub, start), positions counted from 0; a negative start counts
\* from the end; -1 when sub is not found
find(t, sub, start) ==
    LET from == IF start < 0 THEN Max(Len(t) + start, 0) ELSE start
        hits == {i \in from..(Len(t) - 1) : t[i + 1] = sub}
    IN  IF hits = {} THEN -1 ELSE CHOOSE i \in hits : \A j \in hits : i <= j

\* t[a:b] for b >= 0
slice(t, a, b) ==
    LET from == IF a < 0 THEN Max(Len(t) + a, 0) ELSE a
        to == Min(b, Len(t))
    IN  IF from >= to THEN <<>> ELSE SubSeq(t, from + 1, to)

\* json.loads: the list of objects, or JSONDecodeError
json_loads(t) ==
    IF /\ Len(t) >= 2 /\ t[1] = "[" /\ t[Len(t)] = "]"
       /\ \A i \in 2..(Len(t) - 1) : t[i] \in {"{full}", "{id}"}
    THEN Returned(SubSeq(t, 2, Len(t) - 1))
    ELSE Raised("JSONDecodeError")

\* the list comprehension over categories: cat['header'] raises KeyError
category(cat) ==
    IF cat = "{full}"
    THEN Returned([name |-> "header", category_id |-> "id",
                   url |-> <<"https://www.ultrasoundcases.info/cases/", "listLocation", "/">>])
    ELSE Raised("KeyError")

\* extract_main_categories(html_content); only JSONDecodeError is caught
extract_main_categories(html_content) ==
    LET start_idx == find(html_content, "<div id=jsoncats", 0)
        json_start == find(html_content, "[", start_idx)
        json_end == find(html_content, "]", json_start) + 1
        json_str == slice(html_content, json_start, json_end)
        categories == json_loads(json_str)
        cats == [i \in 1..Len(categories.value) |-> category(categories.value[i])]
        raised == FirstRaised(cats)
    IN  IF start_idx = -1 THEN Returned(<<>>)
        ELSE IF categories.exc = "JSONDecodeError" THEN Returned(<<>>)
        ELSE IF raised # <<>> THEN raised[1]
        ELSE Returned([i \in 1..Len(cats) |-> cats[i].value])

\* ------------------------------- the extraction functions: main3.py sitemap
MaxLocs == 2      \* loc elements of a sitemap
UrlChars == {"/", "c", "1"}

\* str.rstrip('/')
RECURSIVE rstrip_slash(_)
rstrip_slash(t) ==
    IF t # <<>> /\ t[Len(t)] = "/"
    THEN rstrip_slash(SubSeq(t, 1, Len(t) - 1)) ELSE t

\* str.split(sep)
RECURSIVE split(_, _)
split(t, sep) ==
    LET cut == find(t, sep, 0)
    IN  IF cut = -1 THEN <<t>>
        ELSE <<SubSeq(t, 1, cut)>> \o split(SubSeq(t, cut + 2, Len(t)), sep)

\* str.split('/')
split_slash(t) == split(t, "/")

\* split('/')[-1] without the rstrip('/')
last_segmentUnstripped(url_text) ==
    LET parts == split_slash(url_text) IN parts[Len(parts)]

\* url_text.rstrip('/').split('/')[-1]
last_segment(url_text) ==
    LET parts == split_slash(rstrip_slash(url_text)) IN parts[Len(parts)]

\* if last_segment and last_segment[-1].isdigit()
ends_with_digit(url_text) ==
    LET seg == last_segment(url_text)
    IN  seg # <<>> /\ isdigit(seg[Len(seg)])

\* parse_sitemap(xml_content): ET.fromstring raises ParseError on XML that is
\* not well-formed; url.text is None for an empty loc element
parse_sitemap(xml_content) ==
    IF ~xml_content.wellformed THEN Raised("ParseError")
    ELSE IF \E i \in 1..Len(xml_content.locs) : xml_content.locs[i] = <<>>
         THEN Raised("AttributeError")
         ELSE LET urls == [i \in 1..Len(xml_content.locs) |-> xml_content.locs[i][1]]
                  digit_ending_urls == SelectSeq(urls, ends_with_digit)
              IN  Returned(
                    [all_urls |-> [i \in 1..Len(urls) |->
                                     [url |-> urls[i],
                                      last_segment |-> last_segment(urls[i])]],
                     digit_ending_urls |-> digit_ending_urls,
                     digit_ending_urls_txt |-> digit_ending_urls])

\* loc elements of the site's sitemap: a case URL, an overview URL, no text
SiteLocs ==
    { << <<"c", "/", "c", "1", "/">> >>, << <<"c", "/", "c", "/">> >>, <<>> }

\* sitemaps: one that is not well-formed, the site's, and those of one loc
\* with any text
Sitemaps ==
    {[wellformed |-> FALSE, locs |-> <<>>]}
      \cup [wellformed : {TRUE}, locs : SeqsUpTo(SiteLocs, MaxLocs)]
      \cup [wellformed : {TRUE},
            locs : {<< <<t>> >> : t \in SeqsUpTo(UrlChars, MaxText)}]

\* ----------------------------- the extraction functions: main3.py case page
\* sep.join(parts)
RECURSIVE join(_, _)
join(sep, parts) ==
    IF parts = <<>> THEN <<>>
    ELSE IF Len(parts) = 1 THEN parts[1]
         ELSE parts[1] \o <<sep>> \o join(sep, Tail(parts))

\* descriptions: the stripped text of the sibling paragraphs that are not blank
RECURSIVE descriptions(_)
descriptions(ps) ==
    IF ps = <<>> THEN <<>>
    ELSE (IF strip(Head(ps)) # <<>> THEN <<strip(Head(ps))>> ELSE <<>>)
           \o descriptions(Tail(ps))

\* the loop over details_text.split('\n'): key, value = line.split(':', 1)
RECURSIVE details_of(_, _)
details_of(lines, dict) ==
    IF lines = <<>> THEN dict
    ELSE LET line == Head(lines)
             colon == find(line, ":", 0)
         IN  IF colon = -1 THEN details_of(Tail(lines), dict)
             ELSE LET key == strip(SubSeq(line, 1, colon))
                      value == strip(SubSeq(line, colon + 2, Len(line)))
                  IN  details_of(Tail(lines),
                        [k \in DOMAIN dict \cup {key} |->
                           IF k = key THEN value ELSE dict[k]])

\* extract_case_info(html_content, url) from the parsed page on.  The whole
\* extraction is one try block: an exception ends it and the fields filled so
\* far are returned.  Details is the last field and the only one whose
\* find_next('p') is not guarded.
extract_case_info(soup) ==
    LET date_elem == soup.date
        title_elem == soup.h1
        clinical_elem == soup.clinical
        question_elem == soup.question
        images_section == soup.images
        conclusion_elem == soup.conclusion
        details_elem == soup.details
    IN  Returned(
          [case_of_month_date |->
             IF date_elem # <<>> THEN strip(replace(date_elem[1], <<"D">>)) ELSE <<>>,
           title |-> IF title_elem # <<>> THEN strip(title_elem[1]) ELSE <<>>,
           clinical_info |->
             IF clinical_elem # <<>> /\ clinical_elem[1].next_p # <<>>
             THEN strip(clinical_elem[1].next_p[1]) ELSE <<>>,
           question |-> IF question_elem # <<>> THEN strip(question_elem[1].text) ELSE <<>>,
           options |->
             IF question_elem # <<>>
             THEN join("\n", [i \in 1..Len(question_elem[1].options) |->
                                strip(question_elem[1].options[i])])
             ELSE <<>>,
           images_description |->
             IF images_section # <<>> THEN descriptions(images_section[1]) ELSE <<>>,
           conclusion |->
             IF conclusion_elem # <<>> /\ conclusion_elem[1].next_p # <<>>
             THEN strip(conclusion_elem[1].next_p[1]) ELSE <<>>,
           details |->
             IF details_elem # <<>> /\ details_elem[1].next_p # <<>>
             THEN details_of(split(strip(details_elem[1].next_p[1]), "\n"), <<>>)
             ELSE <<>>])

\* what find_next('p') gives after a heading
NextP(texts) == [next_p : Opt(texts)]

\* case pages of main3.py: what each locator of extract_case_info finds; "D"
\* stands for the words 'Case of Month date :'
InfoPages ==
    [date : Opt({<<"D", " ", "1">>}),
     h1 : Opt({<<"T", " ">>}),
     clinical : Opt(NextP({<<" ", "c">>})),
     question : Opt([text : {<<"Q", " ">>},
                     options : {<<>>, << <<"A", ")">>, <<"B", ")", " ">> >>}]),
     images : Opt({<< <<"i">>, <<" ">> >>}),
     conclusion : Opt(NextP({<<"e", " ">>})),
     details : Opt(NextP({<<"k", ":", " ", "v", "\n", "z", " ">>}))]

\* --------------------------------------- the extraction functions: the calls
Call(name, inputs) ==
    /\ fn = name
    /\ fn_in \in inputs
    /\ fn_pc = "call"
    /\ fn_out = <<>>

FnInit ==
    \/ Call("get_case_links", ListingPages)
    \/ Call("get_subcategory_links", Containers)
    \/ Call("scrape_organ_cases", OrganPages \cup CountPages)
    \/ Call("scrape_case_details", CasePages)
    \/ Call("extract_main_categories", SeqsUpTo(HtmlTokens, MaxTokens))
    \/ Call("parse_sitemap", Sitemaps)
    \/ Call("extract_case_info", InfoPages)
    \/ Call("scrape_candidate_page",
            [soup : CandidatePages, resps : [1..MaxItems -> Responses]])

Return(name, out) ==
    /\ fn = name
    /\ fn_pc = "call"
    /\ fn_pc' = "returned"
    /\ fn_out' = out
    /\ UNCHANGED <<fn, fn_in>>
    /\ UNCHANGED notFnVars

GetCaseLinks == Return("get_case_links", Returned(get_case_links(fn_in)))

GetSubcategoryLinks ==
    Return("get_subcategory_links", Returned(get_subcategory_links(fn_in)))

ScrapeOrganCases == Return("scrape_organ_cases", scrape_organ_cases(fn_in))

ScrapeCandidatePage ==
    Return("scrape_candidate_page",
           Returned(scrape_candidate_page(fn_in.soup, fn_in.resps)))

ScrapeCaseDetails == Return("scrape_case_details", scrape_case_details(fn_in))

ExtractMainCategories ==
    Return("extract_main_categories", extract_main_categories(fn_in))

ParseSitemap == Return("parse_sitemap", parse_sitemap(fn_in))

ExtractCaseInfo == Return("extract_case_info", extract_case_info(fn_in))

FnOff == fn = "none" /\ fn_in = <<>> /\ fn_pc = "off" /\ fn_out = <<>>

NextFn ==
    \/ GetCaseLinks
    \/ GetSubcategoryLinks
    \/ ScrapeOrganCases
    \/ ScrapeCandidatePage
    \/ ScrapeCaseDetails
    \/ ExtractMainCategories
    \/ ParseSitemap
    \/ ExtractCaseInfo

InitFn == FnInit /\ MainOff /\ P3Off /\ DlOff

SpecFn == InitFn /\ [][NextFn]_vars

InitDl == DlInit /\ MainOff /\ P3Off /\ FnOff

SpecDl == InitDl /\ [][NextDl]_vars

InitP3 == P3Init /\ MainOff /\ DlOff /\ FnOff

SpecP3 == InitP3 /\ [][NextP3]_vars

Init == MainInit /\ P3Off /\ DlOff /\ FnOff

Next ==
    \/ Start
    \/ EnterCategory
    \/ FetchSubcategory
    \/ FetchCase
    \/ NextLink
    \/ Download
    \/ WriteRow
    \/ Flush
    \/ Sleep
    \/ Close
    \/ Abort

Spec == Init /\ [][Next]_vars

\* ================================================================== claims
InCase == pc \in {"case_fetch", "links", "download", "write", "flush", "sleep"}

\* where control is after a case node: its next sibling, else the next
\* subcategory, else the next category, else the normal end of the run
CaseSuccessor ==
    IF ki < nCases
    THEN pc' = "case_fetch" /\ ki' = ki + 1 /\ si' = si /\ ci' = ci
         /\ nCases' = nCases /\ nSubs' = nSubs
    ELSE IF si < nSubs
    THEN pc' = "subcat_fetch" /\ si' = si + 1 /\ ci' = ci /\ nSubs' = nSubs
    ELSE IF ci < nCats
    THEN pc' = "category" /\ ci' = ci + 1
    ELSE pc' = "exit"

\* where control is after a subcategory node without cases to visit
SubcategorySuccessor ==
    IF si < nSubs
    THEN pc' = "subcat_fetch" /\ si' = si + 1 /\ ci' = ci /\ nSubs' = nSubs
    ELSE IF ci < nCats
    THEN pc' = "category" /\ ci' = ci + 1
    ELSE pc' = "exit"

\* C1: in main.py's traversal a case node is always followed by its next
\* sibling (the next case of the subcategory, else the next subcategory, else
\* the next category), also when its render or extraction raised; a
\* subcategory page whose fetch or parse raised is followed by the next
\* subcategory; every case link found on a subcategory page is visited from
\* the first on.  So nothing after a failed node is left out.
C1_SiblingsStillRun ==
    [][ /\ (InCase /\ (pc' \notin {"links", "download", "write", "flush", "sleep"}))
            => CaseSuccessor
        /\ (pc = "subcat_fetch" /\ pc' # "case_fetch") => SubcategorySuccessor
        /\ (pc = "subcat_fetch" /\ pc' = "case_fetch")
            => (ki' = 1 /\ nCases' >= 1 /\ si' = si /\ ci' = ci)
        /\ nCats' # nCats => pc = "start"
      ]_vars

\* a case raised and the next case of the same subcategory is about to be fetched
C1_Witness == pc = "case_fetch" /\ ki = 2 /\ skipped = "case"

\* C2: no exception of a node (root page, subcategory page, case page)
\* leaves main(): the run never ends by an escaping exception.
C2_NoErrorEscapes == pc \notin {"unwind", "aborted"}

\* the points where main() is suspended or gone: render requests, asset
\* downloads, the sleep, the shutdown of crawler and session
SuspensionPoints ==
    {"start", "subcat_fetch", "case_fetch", "download", "sleep", "exit", "unwind",
     "done", "aborted"}

\* C3: at every suspension point of main.py's main (render request, asset
\* download, sleep) and at the end of the run no row of a case handed to the
\* CSV writer is still unflushed.
C3_RowsFlushedBeforeSuspension ==
    pc \in SuspensionPoints => DataRows(unflushed) = {}

\* rows of a case were written and main() is at the sleep that follows them
C3_Witness == pc = "sleep" /\ Len(written) = 2 /\ DataRows(unflushed) = {}

\* C4: in main3.py's process_urls, when the render request of a URL begins,
\* no row written for an earlier URL is still unflushed.
C4_RowDurableBeforeNextRender ==
    p3_pc = "render" => DataRows(p3_buffer) = {}

\* C5: a case whose N image links, of N different URLs, all downloaded has N
\* rows with the same category, subcategory and title and pairwise distinct
\* (image_path, image_caption) pairs.
C5_OneDistinctRowPerImage ==
    (/\ pc = "sleep" /\ case_data # <<>> /\ nFailed = 0
     /\ Cardinality(case_urls) = Len(case_data[1].images))
    => /\ Len(written) = Len(case_data[1].images)
       /\ \A i \in 1..Len(written) :
             /\ written[i].category = ci
             /\ written[i].subcategory = si
             /\ written[i].title = case_data[1].title
       /\ \A i, j \in 1..Len(written) :
             i # j => <<written[i].image_path, written[i].image_caption>>
                      # <<written[j].image_path, written[j].image_caption>>

\* C6: every image link whose download failed is kept in the case as an
\* asset without local path and gets a row with an empty image_path.
C6_FailedAssetKeepsRow ==
    (pc = "sleep" /\ case_data # <<>>)
    => /\ Cardinality({i \in 1..Len(case_data[1].images) :
                         case_data[1].images[i] = <<>>}) = nFailed
       /\ Cardinality({i \in 1..Len(written) :
                         written[i].image_path = <<>>}) = nFailed

\* C7 as stated: an extracted case without images has exactly one row, with
\* empty image_path and image_caption.
C7_ZeroImagesOneBlankRow ==
    (pc = "sleep" /\ case_data # <<>> /\ case_data[1].images = <<>>)
    => /\ Len(written) = 1
       /\ written[1].image_path = <<>>
       /\ written[1].image_caption = ""

\* C7 (amended): an extracted case without images has no row.
C7_ZeroImagesNoRow ==
    (pc = "sleep" /\ case_data # <<>> /\ case_data[1].images = <<>>)
    => written = <<>>

\* a case was extracted, every image link it had failed to download, and
\* main() is past the row loop
C7_Witness ==
    pc = "sleep" /\ case_data # <<>> /\ case_data[1].images = <<>> /\ nFailed > 0

\* the place of a row in the hierarchy: category, subcategory, case, image
Pos == <<ci, si, ki, ri>>

\* lexicographic order on places
KeyLeq(a, b) ==
    \/ a[1] < b[1]
    \/ a[1] = b[1] /\ a[2] < b[2]
    \/ a[1] = b[1] /\ a[2] = b[2] /\ a[3] < b[3]
    \/ a[1] = b[1] /\ a[2] = b[2] /\ a[3] = b[3] /\ a[4] <= b[4]

\* C8: rows are written in depth-first order: the place
\* (category, subcategory, case, image) main() is at never moves backwards,
\* and the row written at a place is the row of that category, that
\* subcategory and that image of the case.
C8_DepthFirstOrder ==
    [][ /\ KeyLeq(Pos, Pos')
        /\ (written' # written /\ written' # <<>>)
            => /\ Len(written') = ri'
               /\ \A i \in 1..Len(written) : written'[i] = written[i]
               /\ written'[ri'].category = ci'
               /\ written'[ri'].subcategory = si'
               /\ written'[ri'].image_path = case_data[1].images[ri']
               /\ written'[ri'].image_caption = case_data[1].image_captions[ri']
      ]_vars

\* the second row of a case of the second category has been written
C8_Witness == pc = "flush" /\ ci = 2 /\ ri = 2 /\ Len(written) = 2

\* C9: when a page render is about to be requested after an earlier one, a
\* politeness delay has elapsed since that earlier request.
C9_DelayBetweenRenders == pc \in {"subcat_fetch", "case_fetch"} => delayed

\* C10: no GET is issued for an asset URL that was requested before in the run.
C10_OneGetPerUrl == pc = "download" => img_url \notin requested

\* C11: download_file never leaves a partial or empty file behind: the
\* destination is created or overwritten only once the whole body has been
\* received, and a call that returns None leaves the folder as it found it.
C11_NoPartialFile ==
    /\ dl_pc \in {"get", "open", "read"} => dl_files = dl_before
    /\ dl_pc = "idle" =>
          /\ \A p \in DlPaths : dl_files[p].state \in {"absent", "full"}
          /\ dl_result = <<>> => dl_files = dl_before

\* C12: two calls that returned a path returned the same path only for the
\* same URL (also for URLs that share their final path segment), and no file
\* a call returned holds the body of another URL.
C12_DistinctUrlsDistinctFiles ==
    /\ \A d1, d2 \in dl_done : d1.path = d2.path <=> d1.url = d2.url
    /\ \A d \in dl_done :
          ~(dl_files[d.path].state = "full" /\ dl_files[d.path].of # d.url)

\* C13: at most one network operation (page render or asset GET) is in flight
\* at any time in main.py's main, and none is in flight while a row is written
\* to the CSV or flushed.
C13_OneOperationInFlight ==
    /\ Cardinality(inflight) <= 1
    /\ pc \in {"write", "flush"} => inflight = {}

\* a second asset of a case is being fetched after rows of an earlier case
\* were written
C13_Witness ==
    /\ pc = "download" /\ li = 2 /\ ci = 2
    /\ inflight = {[kind |-> "get", target |-> img_url]}

\* the match of the first locator of a chain that matches anything; empty
\* when none does
RECURSIVE FirstMatch(_)
FirstMatch(matches) ==
    IF matches = <<>> THEN <<>>
    ELSE IF Head(matches) # <<>> THEN Head(matches)
         ELSE FirstMatch(Tail(matches))

TextOf(elem) == IF elem = <<>> THEN "" ELSE elem[1]

\* the elements each function's chains select
ListingChain(soup) ==
    LET c == FirstMatch(<<soup.first, soup.second>>)
    IN  IF c = <<>> THEN <<>> ELSE FirstMatch(<<c[1].first, c[1].second>>)
OrganChain(soup) ==
    LET c == FirstMatch(<<soup.candidate_container, soup.content_container>>)
        r == IF c = <<>> THEN <<>> ELSE FirstMatch(<<c[1].filter, <<c[1].outside>>>>)
    IN  IF r = <<>> THEN <<>> ELSE FirstMatch(<<r[1].first, r[1].second>>)

\* C14: each two-step locator fallback of main.py (get_case_links,
\* get_subcategory_links, scrape_organ_cases, scrape_candidate_page) gives the
\* match of the first locator that matches at least one element, uses the
\* later locator only when the earlier one matched nothing, and gives an empty
\* result, not an exception, when none matches.
C14_FirstMatchingLocator ==
    fn_pc = "returned" =>
      CASE fn = "get_case_links" ->
             fn_out = Returned(LinksOf(ListingChain(fn_in)))
        [] fn = "get_subcategory_links" ->
             fn_out = Returned(LinksOf(FirstMatch(<<fn_in.first, fn_in.second>>)))
        [] fn = "scrape_organ_cases" ->
             LET sel == OrganChain(fn_in)
                 organ == FirstMatch(<<fn_in.option_title, fn_in.category_list>>)
             IN  /\ sel = <<>> => fn_out.exc = "none"
                 /\ fn_out.exc = "none" =>
                      /\ fn_out.value.organ_links =
                           (IF organ = <<>> THEN <<>> ELSE organ[1])
                      /\ Len(fn_out.value.candidates) = Len(sel)
                      /\ \A i \in 1..Len(sel) :
                           /\ fn_out.value.candidates[i].title =
                                TextOf(FirstMatch(<<sel[i].h3, sel[i].h2>>))
                           /\ cases_count(sel[i]) =
                                Returned(fn_out.value.candidates[i].cases_count)
                 /\ fn_out.exc # "none" =>
                      \E i \in 1..Len(sel) : candidate_info(sel[i]).exc # "none"
        [] fn = "scrape_candidate_page" ->
             LET sel == ListingChain(fn_in.soup)
                 out == fn_out.value
             IN  /\ fn_out.exc = "none"
                 /\ Len(out) = Len(sel)
                 /\ \A i \in 1..Len(sel) :
                      /\ out[i].title = TextOf(FirstMatch(<<sel[i].h3, sel[i].h2>>))
                      /\ out[i].description =
                           TextOf(FirstMatch(<<sel[i].p, sel[i].description>>))
        [] OTHER -> TRUE

\* get_case_links fell back at both steps and found links
C14_Witness ==
    /\ fn = "get_case_links" /\ fn_pc = "returned"
    /\ fn_in.first = <<>> /\ fn_in.second # <<>>
    /\ fn_in.second[1].first = <<>>
    /\ Len(fn_out.value) = 2

\* C15: for every page that has a company-details container,
\* scrape_case_details returns, with the default value for each absent inner
\* structure, and never raises: also for a patient-data item without a label
\* span.
C15_DefaultsNeverRaises ==
    (fn = "scrape_case_details" /\ fn_pc = "returned" /\ fn_in # <<>>) =>
      /\ fn_out.exc = "none"
      /\ fn_out.value # <<>>
      /\ fn_in[1].title_body = <<>> =>
            fn_out.value[1].title = <<>> /\ fn_out.value[1].info = <<>>
      /\ fn_in[1].about_details = <<>> => fn_out.value[1].clinical_info = <<>>
      /\ fn_in[1].patient_data = <<>> => fn_out.value[1].patient_details = <<>>

\* C16: in scrape_organ_cases the case count of a candidate is the integer
\* formed by the digit characters of its count element ('cases-count', else
\* 'count'), and it is 0, with no exception, both when there is no count
\* element and when the element's text holds no digit.
C16_CountOfDigitsOrZero ==
    (fn = "scrape_organ_cases" /\ fn_pc = "returned") =>
      LET sel == OrganChain(fn_in)
      IN  \A i \in 1..Len(sel) :
            LET elem == FirstMatch(<<sel[i].cases_count, sel[i].count>>)
                digits == IF elem = <<>> THEN <<>> ELSE filter_isdigit(elem[1])
            IN  /\ fn_out.exc = "none"
                /\ fn_out.value.candidates[i].cases_count =
                     (IF digits = <<>> THEN 0 ELSE DecimalValue(digits))

\* the jsoncats payload of a page: the tokens from the first "[" after the
\* div to the first "]" after it; <<>> when the div or a bracket is missing
Payload(html) ==
    LET divs == {i \in 1..Len(html) : html[i] = "<div id=jsoncats"}
        d == IF divs = {} THEN 0 ELSE CHOOSE i \in divs : \A j \in divs : i <= j
        opens == {i \in 1..Len(html) : d > 0 /\ i > d /\ html[i] = "["}
        o == IF opens = {} THEN 0 ELSE CHOOSE i \in opens : \A j \in opens : i <= j
        closes == {i \in 1..Len(html) : o > 0 /\ i > o /\ html[i] = "]"}
        c == IF closes = {} THEN 0 ELSE CHOOSE i \in closes : \A j \in closes : i <= j
    IN  IF c = 0 THEN <<>> ELSE SubSeq(html, o, c)

\* C17: extract_main_categories returns the empty list for every page whose
\* jsoncats payload is missing, truncated, not valid JSON, or valid JSON
\* without the expected keys; parse_sitemap does not raise on malformed XML.
C17_MalformedPayloadTolerated ==
    fn_pc = "returned" =>
      /\ fn = "extract_main_categories" =>
            /\ fn_out.exc = "none"
            /\ LET payload == Payload(fn_in)
               IN  (\/ payload = <<>>
                    \/ \E i \in 2..(Len(payload) - 1) : payload[i] # "{full}")
                     => fn_out.value = <<>>
      /\ (fn = "parse_sitemap" /\ ~fn_in.wellformed) => fn_out.exc = "none"

\* C18: a patient-data item rendered as 'Sex: F' gives
\* patient_details['Sex'] == 'F', with the colon inside or outside the nested
\* span, and also when the label text recurs inside the value: the value is
\* the item's text after the label and its colon, stripped.
C18_ValueAfterLabel ==
    (/\ fn = "scrape_case_details" /\ fn_pc = "returned" /\ fn_in # <<>>
     /\ fn_in[1].patient_data # <<>>
     /\ Len(fn_in[1].patient_data[1]) = 1
     /\ fn_in[1].patient_data[1][1].span # <<>>
     /\ startswith(li_text(fn_in[1].patient_data[1][1]), <<"S", ":">>)) =>
      LET text == li_text(fn_in[1].patient_data[1][1])
          expected == strip(SubSeq(text, 3, Len(text)))
      IN  expected # <<>> =>
            /\ fn_out.exc = "none"
            /\ fn_out.value[1].patient_details = [k \in {<<"S">>} |-> expected]

\* the final path segment of a URL once its trailing slashes are removed: the
\* longest run of characters other than "/" that ends the stripped URL
FinalSegment(u) ==
    LET n == CHOOSE j \in 0..Len(u) :
               /\ j = 0 \/ u[j] # "/"
               /\ \A i \in (j + 1)..Len(u) : u[i] = "/"
        k == CHOOSE j \in 0..n :
               /\ \A i \in (n - j + 1)..n : u[i] # "/"
               /\ j = n \/ u[n - j] = "/"
    IN  SubSeq(u, n - k + 1, n)

EndsInDigit(u) ==
    LET seg == FinalSegment(u) IN seg # <<>> /\ seg[Len(seg)] \in Digits

\* C19: parse_sitemap returns, as the digit-ending list, exactly the sitemap's
\* URLs, in sitemap order, whose final path segment (trailing slashes removed)
\* is non-empty and ends in a decimal digit, and returns every URL with its
\* final segment in the all-URLs list.
C19_DigitEndingUrls ==
    (/\ fn = "parse_sitemap" /\ fn_pc = "returned" /\ fn_in.wellformed
     /\ \A i \in 1..Len(fn_in.locs) : fn_in.locs[i] # <<>>) =>
      LET urls == [i \in 1..Len(fn_in.locs) |-> fn_in.locs[i][1]]
      IN  /\ fn_out.exc = "none"
          /\ fn_out.value.digit_ending_urls = SelectSeq(urls, EndsInDigit)
          /\ fn_out.value.all_urls =
                [i \in 1..Len(urls) |->
                   [url |-> urls[i], last_segment |-> FinalSegment(urls[i])]]

\* a case URL with a trailing slash is kept and an overview URL is not
C19_Witness ==
    /\ fn = "parse_sitemap" /\ fn_pc = "returned"
    /\ fn_in.locs = << << <<"c", "/", "c", "1", "/">> >>, << <<"c", "/", "c", "/">> >> >>
    /\ fn_out.value.digit_ending_urls = << <<"c", "/", "c", "1", "/">> >>

\* C20: for every case page without a 'Clinical information' heading
\* (extract_case_info of main3.py), or without an about-details div or without
\* its paragraph (scrape_case_details of main.py), clinical_info is the empty
\* text, no exception is raised, and the other fields are still extracted.
C20_NoClinicalInfoOthersKept ==
    fn_pc = "returned" =>
      /\ (fn = "extract_case_info" /\ fn_in.clinical = <<>>) =>
            /\ fn_out.exc = "none"
            /\ fn_out.value.clinical_info = <<>>
            /\ fn_in.h1 # <<>> => fn_out.value.title = <<"T">>
            /\ fn_in.date # <<>> => fn_out.value.case_of_month_date = <<"1">>
            /\ (fn_in.conclusion # <<>> /\ fn_in.conclusion[1].next_p # <<>>)
                  => fn_out.value.conclusion = <<"e">>
            /\ (fn_in.details # <<>> /\ fn_in.details[1].next_p # <<>>)
                  => fn_out.value.details = [k \in {<<"k">>} |-> <<"v">>]
      /\ (/\ fn = "scrape_case_details" /\ fn_in # <<>>
          /\ \/ fn_in[1].about_details = <<>>
             \/ fn_in[1].about_details[1].p = <<>>) =>
            /\ fn_out.exc = "none"
            /\ fn_out.value[1].clinical_info = <<>>
            /\ (fn_in[1].title_body # <<>> /\ fn_in[1].title_body[1].h1 # <<>>)
                  => fn_out.value[1].title = <<"T">>
            /\ (fn_in[1].patient_data # <<>> /\ fn_in[1].patient_data[1] # <<>>)
                  => DOMAIN fn_out.value[1].patient_details # {}

\* images and image_captions of the case in progress; empty before extraction
ImagesOf(cdv) == IF cdv = <<>> THEN <<>> ELSE cdv[1].images
CaptionsOf(cdv) == IF cdv = <<>> THEN <<>> ELSE cdv[1].image_captions

\* C21: in scrape_case_details, after any sequence of portfolio links with
\* any mix of download successes and failures, images and image_captions have
\* equal length and caption i is the caption found for the link whose
\* download gave image i; the zip in main() then gives every downloaded image
\* a row.
C21_ImagesPairedWithCaptions ==
    [][ /\ Len(ImagesOf(case_data')) = Len(CaptionsOf(case_data'))
        /\ pc = "download" =>
             \/ /\ case_data' = case_data
                /\ nFailed' = nFailed + 1
             \/ /\ ImagesOf(case_data') =
                     Append(ImagesOf(case_data), filepath("images", img_url))
                /\ CaptionsOf(case_data') = Append(CaptionsOf(case_data), caption)
                /\ nFailed' = nFailed
        /\ (pc # "download" /\ case_data # <<>> /\ case_data' # <<>>) =>
             /\ ImagesOf(case_data') = ImagesOf(case_data)
             /\ CaptionsOf(case_data') = CaptionsOf(case_data)
        /\ (pc \in {"links", "download", "flush"} /\ pc' = "sleep") =>
             Len(written') = Len(ImagesOf(case_data'))
      ]_vars

\* of the two links of a case one failed to download and the other, which
\* has a caption, was downloaded and has its row
C21_Witness ==
    /\ pc = "sleep" /\ nLinks = 2 /\ nFailed = 1
    /\ CaptionsOf(case_data) = <<"c">>
    /\ Len(ImagesOf(case_data)) = 1
    /\ Len(written) = 1

====
